---------------------------- MODULE Spec2Model ----------------------------
(***************************************************************************)
(* ScreenshotManager (browser_use/agent/message_manager/                   *)
(* screenshot_manager.py): per-step screenshot and transcript files and    *)
(* the screenshot index, over a file system shared by several managers.    *)
(*                                                                         *)
(* A Python str is a sequence of one-character strings, a bytes value a    *)
(* sequence of numbers 0..255, a path a str with "/" between its parts.    *)
(***************************************************************************)
EXTENDS Naturals, Integers, Sequences, FiniteSets

\* ------------------------------------------------------------- bounds
\* Calls made in one behaviour.
MaxCalls == 2
\* The largest step number saved (two decimal digits, so that the numeric
\* and the lexicographic order of step numbers differ).
MaxStep == 10

\* ------------------------------------------------------------- inputs
\* agent_id values of the managers sharing one conversation_dir.
AgentIds == { <<"A">>, <<"A","_","1">> }
\* step_number values.
StepNumbers == {2, MaxStep}
\* Python None, distinct from every str (no str has a 4-character element).
None == <<"None">>
\* BrowserStateSummary.screenshot: absent, "hello", and a payload with
\* incorrect padding.
Screenshots == { None, <<"a","G","V","s","b","G","8","=">>, <<"a","G","k">> }
\* input_messages (role, text) and the response's explicitly set fields.
InputMessages == << [role |-> <<"u","s","e","r">>, text |-> <<"h","i">>],
                    [role |-> <<"a","s","s","i","s","t","a","n","t">>, text |-> <<"o","k">>] >>
Response == << <<<<"a","c","t","i","o","n">>, <<"c","l","i","c","k">>>> >>
\* The conversation_dir every manager is constructed with.
TargetDirectory == <<"o","u","t">>

\* ------------------------------------------------------ str operations
Digits == <<"0","1","2","3","4","5","6","7","8","9">>

\* str(int), as the f-strings format step_number and len(...).
RECURSIVE str(_)
str(n) ==
    IF n < 0 THEN <<"-">> \o str(0 - n)
    ELSE IF n < 10 THEN <<Digits[n + 1]>>
    ELSE str(n \div 10) \o <<Digits[(n % 10) + 1]>>

IsDigit(c) == \E i \in 1..10 : Digits[i] = c
DigitValue(c) == (CHOOSE i \in 1..10 : Digits[i] = c) - 1

RECURSIVE DecimalValue(_)
DecimalValue(s) ==
    IF s = <<>> THEN 0
    ELSE 10 * DecimalValue(SubSeq(s, 1, Len(s) - 1)) + DigitValue(s[Len(s)])

\* int(str): an optional sign and at least one decimal digit, ValueError
\* otherwise (ok = FALSE).  The names modelled hold no white space and the
\* segment parsed holds no "_".
int(s) ==
    LET signed == s # <<>> /\ s[1] \in {"-", "+"}
        digits == IF signed THEN Tail(s) ELSE s
    IN  IF digits # <<>> /\ \A i \in 1..Len(digits) : IsDigit(digits[i])
        THEN [ok |-> TRUE,
              value |-> IF signed /\ s[1] = "-" THEN 0 - DecimalValue(digits)
                        ELSE DecimalValue(digits)]
        ELSE [ok |-> FALSE, value |-> 0]

\* str.startswith
startswith(s, prefix) ==
    Len(s) >= Len(prefix) /\ SubSeq(s, 1, Len(prefix)) = prefix

\* str.split(sep) for a one-character sep: the list of segments.
RECURSIVE split(_, _)
split(s, sep) ==
    LET at == { k \in 1..Len(s) : s[k] = sep }
    IN  IF at = {} THEN <<s>>
        ELSE LET i == CHOOSE k \in at : \A j \in at : k <= j
             IN  <<SubSeq(s, 1, i - 1)>> \o split(SubSeq(s, i + 1, Len(s)), sep)

\* sep.join(lines)
RECURSIVE join(_, _)
join(sep, lines) ==
    IF lines = <<>> THEN <<>>
    ELSE IF Len(lines) = 1 THEN lines[1]
    ELSE lines[1] \o sep \o join(sep, Tail(lines))

\* Path / name
PathJoin(dir, name) == dir \o <<"/">> \o name

\* Path.name: the part after the last "/".
PathName(path) == LET parts == split(path, "/") IN parts[Len(parts)]

\* Path.parent: the part before the last "/".
PathParent(path) == SubSeq(path, 1, Len(path) - Len(PathName(path)) - 1)

\* Path.suffix: from the last "." of the name on, when that "." is neither
\* its first nor its last character.
PathSuffix(name) ==
    IF \A i \in 1..Len(name) : name[i] # "." THEN <<>>
    ELSE LET i == CHOOSE k \in 1..Len(name) :
                      name[k] = "." /\ \A j \in (k + 1)..Len(name) : name[j] # "."
         IN  IF 1 < i /\ i < Len(name) THEN SubSeq(name, i, Len(name)) ELSE <<>>

\* --------------------------------------------------------------- base64
B64Alphabet == <<"A","B","C","D","E","F","G","H","I","J","K","L","M","N","O","P","Q","R","S","T","U","V","W","X","Y","Z","a","b","c","d","e","f","g","h","i","j","k","l","m","n","o","p","q","r","s","t","u","v","w","x","y","z","0","1","2","3","4","5","6","7","8","9","+","/">>
IsB64(c) == \E i \in 1..64 : B64Alphabet[i] = c
B64Value(c) == (CHOOSE i \in 1..64 : B64Alphabet[i] = c) - 1

\* base64.b64decode(s) with validate=False, one character at a time: the
\* state is (quad_pos, leftchar, pads, data, done).  Characters outside the
\* alphabet are skipped, a complete pad sequence ends the input.
B64Step(st, c) ==
    IF st.done THEN st
    ELSE IF c = "="
    THEN IF st.quad_pos >= 2 /\ st.quad_pos + st.pads + 1 >= 4
         THEN [st EXCEPT !.done = TRUE]
         ELSE IF st.quad_pos >= 2 THEN [st EXCEPT !.pads = st.pads + 1] ELSE st
    ELSE IF ~IsB64(c) THEN st
    ELSE LET v == B64Value(c)
         IN  CASE st.quad_pos = 0 ->
                    [st EXCEPT !.quad_pos = 1, !.leftchar = v, !.pads = 0]
               [] st.quad_pos = 1 ->
                    [st EXCEPT !.quad_pos = 2, !.pads = 0,
                               !.data = Append(st.data, st.leftchar * 4 + v \div 16),
                               !.leftchar = v % 16]
               [] st.quad_pos = 2 ->
                    [st EXCEPT !.quad_pos = 3, !.pads = 0,
                               !.data = Append(st.data, st.leftchar * 16 + v \div 4),
                               !.leftchar = v % 4]
               [] OTHER ->
                    [st EXCEPT !.quad_pos = 0, !.pads = 0,
                               !.data = Append(st.data, st.leftchar * 64 + v),
                               !.leftchar = 0]

RECURSIVE B64Run(_, _)
B64Run(st, s) == IF s = <<>> THEN st ELSE B64Run(B64Step(st, Head(s)), Tail(s))

\* The decoded bytes, or binascii.Error (ok = FALSE) when the input ends
\* inside a quad.
b64decode(s) ==
    LET st == B64Run([quad_pos |-> 0, leftchar |-> 0, pads |-> 0,
                      data |-> <<>>, done |-> FALSE], s)
    IN  IF st.done \/ st.quad_pos = 0
        THEN [ok |-> TRUE, data |-> st.data]
        ELSE [ok |-> FALSE, data |-> <<>>]


\* ---------------------------------------------------------- file system
\* A disk is [dirs: the directories that exist, files: path -> content].
\* A fault names the one I/O operation of a call that raises OSError
\* ("none": every operation succeeds).

RECURSIVE Ancestors(_)
Ancestors(dir) ==
    IF \A i \in 1..Len(dir) : dir[i] # "/" THEN {dir}
    ELSE {dir} \cup Ancestors(PathParent(dir))

\* anyio.Path(dir).mkdir(parents=True, exist_ok=True)
mkdir(d, dir) == [d EXCEPT !.dirs = d.dirs \cup Ancestors(dir)]

\* anyio.Path(path).write_bytes(data) / write_text(data): the file is
\* created or replaced.
write(d, path, data) ==
    [d EXCEPT !.files = [p \in DOMAIN d.files \cup {path} |->
                            IF p = path THEN data ELSE d.files[p]]]

\* A write_bytes / write_text that raises OSError: the file was opened for
\* writing and the data did not reach the disk, so it exists and is empty
\* (no cleanup follows).
truncate(d, path) == write(d, path, <<>>)

\* The names of the immediate entries of dir.
entries(d, dir) == { PathName(p) : p \in { q \in DOMAIN d.files : PathParent(q) = dir } }

\* ----------------------------------------------------- ScreenshotManager
\* __init__: self.conversation_dir, self.screenshots_dir
conversation_dir == TargetDirectory
screenshots_dir == PathJoin(conversation_dir, <<"s","c","r","e","e","n","s","h","o","t","s">>)

\* Faulty variant: the step number and the agent id swapped in the name.
screenshot_filename_swapped(agent_id, step_number) ==
    <<"s","c","r","e","e","n","s","h","o","t","_">> \o str(step_number) \o <<"_">> \o agent_id \o <<".","p","n","g">>

\* f"screenshot_{self.agent_id}_{step_number}.png"
screenshot_filename(agent_id, step_number) ==
    <<"s","c","r","e","e","n","s","h","o","t","_">> \o agent_id \o <<"_">> \o str(step_number) \o <<".","p","n","g">>

\* Faulty variant: the agent id left out of the transcript's name.
conversation_filename_no_agent(agent_id, step_number) ==
    <<"c","o","n","v","e","r","s","a","t","i","o","n","_">> \o str(step_number) \o <<".","t","x","t">>

\* f"conversation_{self.agent_id}_{step_number}.txt"
conversation_filename(agent_id, step_number) ==
    <<"c","o","n","v","e","r","s","a","t","i","o","n","_">> \o agent_id \o <<"_">> \o str(step_number) \o <<".","t","x","t">>

\* `not browser_state_summary.screenshot`: None and "" are falsy.
no_screenshot(screenshot) == screenshot = None \/ screenshot = <<>>

\* The try block of save_step_screenshot: mkdir, decode, write_bytes.
save_step_screenshot_try(d, agent_id, step_number, screenshot, fault) ==
    LET screenshot_path ==
            PathJoin(screenshots_dir, screenshot_filename(agent_id, step_number))
        screenshot_data == b64decode(screenshot)
        d1 == mkdir(d, screenshots_dir)
    IN  IF fault = "shot_mkdir"
        THEN [disk |-> d, result |-> None, error |-> "OSError", written |-> {}]
        ELSE IF ~screenshot_data.ok
        THEN [disk |-> d1, result |-> None, error |-> "binascii.Error", written |-> {}]
        ELSE IF fault = "shot_write"
        THEN [disk |-> truncate(d1, screenshot_path), result |-> None,
              error |-> "OSError", written |-> {screenshot_path}]
        ELSE [disk |-> write(d1, screenshot_path, screenshot_data.data),
              result |-> screenshot_path, error |-> "none",
              written |-> {screenshot_path}]

\* Faulty variant: `except OSError`, which lets a decoding error leave the call.
save_step_screenshot_except_OSError(r) ==
    [disk |-> r.disk, result |-> IF r.error = "none" THEN r.result ELSE None,
     error |-> r.error, raised |-> r.error \notin {"none", "OSError"},
     written |-> r.written]

\* `except Exception as e: logger.warning(...); return None`
save_step_screenshot_except(r) ==
    [disk |-> r.disk, result |-> IF r.error = "none" THEN r.result ELSE None,
     error |-> r.error, raised |-> FALSE, written |-> r.written]

\* Faulty variant: the screenshots directory made before the payload is looked at.
save_step_screenshot_mkdir_first(d, agent_id, step_number, screenshot, fault) ==
    IF no_screenshot(screenshot)
    THEN [disk |-> mkdir(d, screenshots_dir), result |-> None, error |-> "none",
          raised |-> FALSE, written |-> {}]
    ELSE save_step_screenshot_except(
             save_step_screenshot_try(d, agent_id, step_number, screenshot, fault))

\* save_step_screenshot(browser_state_summary, step_number)
save_step_screenshot(d, agent_id, step_number, screenshot, fault) ==
    IF no_screenshot(screenshot)
    THEN [disk |-> d, result |-> None, error |-> "none", raised |-> FALSE,
          written |-> {}]
    ELSE save_step_screenshot_except(
             save_step_screenshot_try(d, agent_id, step_number, screenshot, fault))

\* json.dumps(fields, indent=2) of the fields model_dump_json(
\* exclude_unset=True) gives, each a (name, text) pair.
RECURSIVE json_items(_)
json_items(fields) ==
    IF fields = <<>> THEN <<>>
    ELSE <<<<" "," ","\"">> \o fields[1][1] \o <<"\"",":"," ","\"">> \o fields[1][2] \o <<"\"">>>>
         \o json_items(Tail(fields))

json_dumps(fields) ==
    IF fields = <<>> THEN <<"{","}">>
    ELSE <<"{","\n">> \o join(<<",","\n">>, json_items(fields)) \o <<"\n","}">>

RECURSIVE message_lines(_)
message_lines(messages) ==
    IF messages = <<>> THEN <<>>
    ELSE << <<" ">> \o messages[1].role \o <<" ">>, messages[1].text, <<>> >>
         \o message_lines(Tail(messages))

\* _format_conversation_with_screenshot_refs(messages, response, step_number)
format_conversation_with_screenshot_refs(agent_id, messages, response, step_number) ==
    LET screenshot_ref ==
            <<"s","c","r","e","e","n","s","h","o","t","s","/">> \o screenshot_filename(agent_id, step_number)
        lines == << <<"S","C","R","E","E","N","S","H","O","T",":"," ">> \o screenshot_ref, <<>> >>
                 \o message_lines(messages)
                 \o << <<" ","R","E","S","P","O","N","S","E">>, json_dumps(response) >>
    IN  join(<<"\n">>, lines)

\* An exception leaving save_conversation_with_screenshots: nothing is
\* returned.
Raise(d, error, written) ==
    [disk |-> d, result |-> None, screenshot_path |-> None, error |-> error,
     raised |-> TRUE, written |-> written]

\* Faulty variant: the screenshot saved before the transcript is written.
save_conversation_screenshot_first(d, agent_id, messages, response, screenshot, step_number, fault) ==
    LET conversation_path ==
            PathJoin(conversation_dir, conversation_filename(agent_id, step_number))
        s == save_step_screenshot(d, agent_id, step_number, screenshot, fault)
        d1 == mkdir(s.disk, conversation_dir)
        conversation_text ==
            format_conversation_with_screenshot_refs(agent_id, messages, response,
                                                     step_number)
    IN  IF fault = "conv_mkdir" THEN Raise(s.disk, "OSError", s.written)
        ELSE IF fault = "format" THEN Raise(d1, "Exception", s.written)
        ELSE IF fault = "conv_write"
        THEN Raise(truncate(d1, conversation_path), "OSError",
                   {conversation_path} \cup s.written)
        ELSE [disk |-> write(d1, conversation_path, conversation_text),
              result |-> conversation_path, screenshot_path |-> s.result,
              error |-> s.error, raised |-> FALSE,
              written |-> {conversation_path} \cup s.written]

\* ScreenshotManager.save_conversation_with_screenshots(input_messages,
\* response, browser_state_summary, step_number, encoding)
save_conversation_with_screenshots(d, agent_id, messages, response, screenshot, step_number, fault) ==
    LET conversation_path ==
            PathJoin(conversation_dir, conversation_filename(agent_id, step_number))
        d1 == mkdir(d, conversation_dir)
        conversation_text ==
            format_conversation_with_screenshot_refs(agent_id, messages, response,
                                                     step_number)
        d2 == write(d1, conversation_path, conversation_text)
        s == save_step_screenshot(d2, agent_id, step_number, screenshot, fault)
    IN  IF fault = "conv_mkdir" THEN Raise(d, "OSError", {})
        ELSE IF fault = "format" THEN Raise(d1, "Exception", {})
        ELSE IF fault = "conv_write"
        THEN Raise(truncate(d1, conversation_path), "OSError", {conversation_path})
        ELSE IF s.raised
        THEN Raise(s.disk, s.error, {conversation_path} \cup s.written)
        ELSE [disk |-> s.disk, result |-> conversation_path,
              screenshot_path |-> s.result, error |-> s.error, raised |-> FALSE,
              written |-> {conversation_path} \cup s.written]

\* The free function save_conversation_with_screenshots(input_messages,
\* response, browser_state_summary, target_dir, agent_id, step_number,
\* encoding): a manager for (target_dir, agent_id), then its method.
save_conversation_with_screenshots_fn(d, messages, response, screenshot, agent_id, step_number, fault) ==
    save_conversation_with_screenshots(d, agent_id, messages, response, screenshot,
                                       step_number, fault)

\* `path.suffix == ".png" and path.name.startswith(f"screenshot_{agent_id}_")`
is_screenshot_file(name, agent_id) ==
    /\ PathSuffix(name) = <<".","p","n","g">>
    /\ startswith(name, <<"s","c","r","e","e","n","s","h","o","t","_">> \o agent_id \o <<"_">>)

\* x.split("_")[-1].split(".")[0]
step_segment(x) ==
    LET segments == split(x, "_") IN split(segments[Len(segments)], ".")[1]

\* Faulty variant: the key without int(), the segment compared as text ("10" before
\* "2"): its digits read as a fraction, so that the numbers order as the
\* texts do.
step_key_text(x) ==
    LET t == step_segment(x)
        d(i) == IF i <= Len(t) /\ IsDigit(t[i]) THEN DigitValue(t[i]) + 1 ELSE 0
    IN  [ok |-> int(t).ok, value |-> 121 * d(1) + 11 * d(2) + d(3)]

\* The sort key int(x.split("_")[-1].split(".")[0]).
step_key(x) == int(step_segment(x))

\* list.sort(key=...): stable, ascending by the key.  x goes behind every
\* element whose key is not greater.
sort_insert(sorted, x) ==
    LET n == Cardinality({ i \in 1..Len(sorted) :
                              step_key(sorted[i]).value <= step_key(x).value })
    IN  SubSeq(sorted, 1, n) \o <<x>> \o SubSeq(sorted, n + 1, Len(sorted))

RECURSIVE sort_by_step(_)
sort_by_step(screenshot_files) ==
    IF screenshot_files = <<>> THEN <<>>
    ELSE sort_insert(sort_by_step(SubSeq(screenshot_files, 1, Len(screenshot_files) - 1)),
                     screenshot_files[Len(screenshot_files)])

RECURSIVE step_lines(_)
step_lines(screenshot_files) ==
    IF screenshot_files = <<>> THEN <<>>
    ELSE << <<"S","t","e","p"," ">> \o step_segment(screenshot_files[1]) \o <<":"," ">>
            \o screenshot_files[1] >>
         \o step_lines(Tail(screenshot_files))

\* index_content, the lines of index.md
index_content(agent_id, screenshot_files) ==
    << <<"#"," ","S","c","r","e","e","n","s","h","o","t"," ","I","n","d","e","x">>, <<>>,
       <<"A","g","e","n","t"," ","I","D",":"," ">> \o agent_id,
       <<"T","o","t","a","l"," ","S","c","r","e","e","n","s","h","o","t","s",":"," ">> \o str(Len(screenshot_files)),
       <<>> >>
    \o step_lines(screenshot_files)

index_path == PathJoin(screenshots_dir, <<"i","n","d","e","x",".","m","d">>)

\* Faulty variant: the early return on an empty selection left out.
nothing_to_index_ignored(screenshot_files) == FALSE

\* `if not screenshot_files: return`
nothing_to_index(screenshot_files) == screenshot_files = <<>>

\* The try block of create_screenshot_index.  listing is the order in which
\* iterdir yields the entries of the screenshots directory.
create_screenshot_index_try(d, agent_id, listing, fault) ==
    LET screenshot_files ==
            SelectSeq(listing, LAMBDA name : is_screenshot_file(name, agent_id))
        sorted_files == sort_by_step(screenshot_files)
        text == join(<<"\n">>, index_content(agent_id, sorted_files))
        Return(disk_, error, written) ==
            [disk |-> disk_, result |-> None, error |-> error, written |-> written]
    IN  IF fault = "exists" THEN Return(d, "OSError", {})
        ELSE IF screenshots_dir \notin d.dirs THEN Return(d, "none", {})
        ELSE IF fault = "iterdir" THEN Return(d, "OSError", {})
        ELSE IF nothing_to_index(screenshot_files) THEN Return(d, "none", {})
        ELSE IF \E i \in 1..Len(screenshot_files) : ~step_key(screenshot_files[i]).ok
        THEN Return(d, "ValueError", {})
        ELSE IF fault = "index_write"
        THEN Return(truncate(d, index_path), "OSError", {index_path})
        ELSE Return(write(d, index_path, text), "none", {index_path})

\* `except Exception as e: logger.warning(...)`
create_screenshot_index_except(r) ==
    [disk |-> r.disk, result |-> None, error |-> r.error, raised |-> FALSE,
     written |-> r.written]

\* create_screenshot_index()
create_screenshot_index(d, agent_id, listing, fault) ==
    create_screenshot_index_except(
        create_screenshot_index_try(d, agent_id, listing, fault))

\* Every order in which iterdir can yield the names of a directory.
RECURSIVE Listings(_)
Listings(names) ==
    IF names = {} THEN {<<>>}
    ELSE UNION { { <<x>> \o rest : rest \in Listings(names \ {x}) } : x \in names }

\* ------------------------------------------------------------------ state
VARIABLES
    dirs,     \* the directories that exist
    files,    \* path -> content of every file on the disk
    writers,  \* path -> the agent_ids whose calls opened the path for writing
    last,     \* the latest call: its operation, arguments and outcome
    calls     \* the number of calls made

vars == <<dirs, files, writers, last, calls>>

disk == [dirs |-> dirs, files |-> files]

EmptyFiles == [p \in {} |-> <<>>]

\* A file put into the screenshots directory by somebody else: it has the
\* prefix and the suffix of agent "A" and no step number.
ForeignFile == PathJoin(screenshots_dir, <<"s","c","r","e","e","n","s","h","o","t","_","A","_","f","i","n","a","l",".","p","n","g">>)

ShotFaults == {"none", "shot_mkdir", "shot_write"}
ConversationFaults ==
    ShotFaults \cup {"conv_mkdir", "format", "conv_write"}
IndexFaults == {"none", "exists", "iterdir", "index_write"}

\* What a call leaves in `last`: its arguments, the fault injected, what it
\* returned (result, and screenshot_path for the second component of the
\* pair), the exception that occurred in it (error) and whether it left the
\* call (raised), and the paths it opened for writing.
Record(op, agent_id, step_number, screenshot, fault, r, screenshot_path) ==
    [op |-> op, agent_id |-> agent_id, step_number |-> step_number,
     screenshot |-> screenshot, fault |-> fault, result |-> r.result,
     screenshot_path |-> screenshot_path, error |-> r.error, raised |-> r.raised,
     written |-> r.written]

Commit(agent_id, r) ==
    /\ dirs' = r.disk.dirs
    /\ files' = r.disk.files
    /\ writers' = [p \in DOMAIN writers \cup r.written |->
                      (IF p \in DOMAIN writers THEN writers[p] ELSE {})
                      \cup (IF p \in r.written THEN {agent_id} ELSE {})]
    /\ calls' = calls + 1

\* The disk an earlier session of agent "A" leaves: the screenshot of step
\* MaxStep and the index over it.
EarlierSession ==
    LET s == save_step_screenshot([dirs |-> {}, files |-> EmptyFiles], <<"A">>,
                                  MaxStep, <<"a","G","V","s","b","G","8","=">>, "none")
        i == create_screenshot_index(
                 s.disk, <<"A">>, <<screenshot_filename(<<"A">>, MaxStep)>>, "none")
    IN  [disk |-> i.disk, written |-> s.written \cup i.written]

\* The call reaches the operation the fault names (a fault at an operation
\* the call does not reach is the call without a fault).
Reaches(screenshot, fault) ==
    CASE fault = "shot_mkdir" -> ~no_screenshot(screenshot)
      [] fault = "shot_write" ->
            ~no_screenshot(screenshot) /\ b64decode(screenshot).ok
      [] OTHER -> TRUE

\* The managers are constructed over a disk that is empty, or that holds the
\* screenshots directory with the foreign file in it, or that an earlier
\* session has written.
Init ==
    /\ \/ /\ dirs = {}
          /\ files = EmptyFiles
          /\ writers = [p \in {} |-> {}]
       \/ /\ dirs = Ancestors(screenshots_dir)
          /\ files = [p \in {ForeignFile} |-> <<>>]
          /\ writers = [p \in {} |-> {}]
       \/ /\ dirs = EarlierSession.disk.dirs
          /\ files = EarlierSession.disk.files
          /\ writers = [p \in EarlierSession.written |-> {<<"A">>}]
    /\ last = [op |-> "init", agent_id |-> <<>>, step_number |-> 0,
               screenshot |-> None, fault |-> "none", result |-> None,
               screenshot_path |-> None, error |-> "none", raised |-> FALSE,
               written |-> {}]
    /\ calls = 0

SaveStepScreenshot ==
    /\ calls < MaxCalls
    /\ \E agent_id \in AgentIds, step_number \in StepNumbers,
          screenshot \in Screenshots, fault \in ShotFaults :
        /\ Reaches(screenshot, fault)
        /\ \E r \in { save_step_screenshot(disk, agent_id, step_number,
                                           screenshot, fault) } :
            /\ Commit(agent_id, r)
            /\ last' = Record("save_step_screenshot", agent_id, step_number,
                              screenshot, fault, r, None)

\* A step saved through the free function, which builds the manager of
\* (target_dir, agent_id) and calls its method; the method called on a
\* manager that exists already is the same transition.
SaveConversationWithScreenshots ==
    /\ calls < MaxCalls
    /\ \E agent_id \in AgentIds, step_number \in StepNumbers,
          screenshot \in Screenshots, fault \in ConversationFaults :
        /\ Reaches(screenshot, fault)
        /\ \E r \in { save_conversation_with_screenshots_fn(
                          disk, InputMessages, Response, screenshot, agent_id,
                          step_number, fault) } :
            /\ Commit(agent_id, r)
            /\ last' = Record("save_conversation_with_screenshots", agent_id,
                              step_number, screenshot, fault, r, r.screenshot_path)

\* The index rebuilt, with the entries of the screenshots directory listed
\* in any order.
CreateScreenshotIndex ==
    /\ calls < MaxCalls
    /\ \E agent_id \in AgentIds, fault \in IndexFaults :
        \E listing \in Listings(entries(disk, screenshots_dir)) :
            \E r \in { create_screenshot_index(disk, agent_id, listing, fault) } :
                /\ Commit(agent_id, r)
                /\ last' = Record("create_screenshot_index", agent_id, 0, None,
                                  fault, r, None)

Next ==
    \/ SaveStepScreenshot
    \/ SaveConversationWithScreenshots
    \/ CreateScreenshotIndex

Spec == Init /\ [][Next]_vars

\* ------------------------------------------------------------ properties
SaveStep == "save_step_screenshot"
SaveConversation == "save_conversation_with_screenshots"
CreateIndex == "create_screenshot_index"

\* The name screenshot_{agent_id}_{N}.png, and the pattern
\* screenshot_{agent_id}_*.png.
OwnName(agent_id, n) == <<"s","c","r","e","e","n","s","h","o","t","_">> \o agent_id \o <<"_">> \o str(n) \o <<".","p","n","g">>
Matches(name, agent_id) ==
    LET prefix == <<"s","c","r","e","e","n","s","h","o","t","_">> \o agent_id \o <<"_">>
    IN  /\ Len(name) >= Len(prefix) + 4
        /\ SubSeq(name, 1, Len(prefix)) = prefix
        /\ SubSeq(name, Len(name) - 3, Len(name)) = <<".","p","n","g">>

\* The lines of an index text, its "Step N: name" lines, and their parts.
LinesOf(text) == split(text, "\n")
StepLinesOf(text) == SelectSeq(LinesOf(text), LAMBDA l : startswith(l, <<"S","t","e","p"," ">>))
LineStep(line) == int(SubSeq(split(line, ":")[1], 6, Len(split(line, ":")[1])))
LineFile(line) == Tail(split(line, ":")[2])
TotalOf(text) ==
    LET ls == SelectSeq(LinesOf(text),
                        LAMBDA l : startswith(l, <<"T","o","t","a","l"," ","S","c","r","e","e","n","s","h","o","t","s",":"," ">>))
    IN  IF Len(ls) = 1 THEN int(SubSeq(ls[1], 20, Len(ls[1])))
        ELSE [ok |-> FALSE, value |-> 0]

\* The latest call wrote the index and completed.
IndexWritten ==
    last.op = CreateIndex /\ last.error = "none" /\ index_path \in last.written

\* The files of the screenshots directory did not change in the step, and
\* the directory was not made in it.
ScreenshotsUntouched ==
    /\ \A p \in DOMAIN files' :
           PathParent(p) = screenshots_dir => p \in DOMAIN files /\ files'[p] = files[p]
    /\ screenshots_dir \in dirs' => screenshots_dir \in dirs

\* C1: two managers with different agent_ids write no common path: every
\* path has been opened for writing by the calls of one agent_id at most.
C1_NoSharedOutputPath ==
    \A p \in DOMAIN writers : Cardinality(writers[p]) <= 1

\* C2: the index a manager writes lists all and only the screenshots of its
\* own agent_id (the files named screenshot_{agent_id}_{N}.png for a step N),
\* and "Total Screenshots" counts those.
C2_IndexListsOwnFilesOnly ==
    IndexWritten =>
        LET lines == StepLinesOf(files[index_path])
            own == { OwnName(last.agent_id, n) : n \in StepNumbers }
                   \cap entries(disk, screenshots_dir)
        IN  /\ \A i \in 1..Len(lines) : LineFile(lines[i]) \in own
            /\ \A name \in own : \E i \in 1..Len(lines) : LineFile(lines[i]) = name
            /\ TotalOf(files[index_path]) = [ok |-> TRUE, value |-> Cardinality(own)]

\* C3: save_step_screenshot never raises: whatever fails in it (mkdir, the
\* base64 decoding, the write), it returns None.
C3_SaveStepNeverRaises ==
    last.op = SaveStep =>
        /\ ~last.raised
        /\ last.error # "none" => last.result = None

C3_Witness ==
    /\ last.op = SaveStep
    /\ last.error = "binascii.Error"
    /\ last.result = None
    /\ ~last.raised

\* C4: in save_conversation_with_screenshots a failure to make the target
\* directory or to write the transcript leaves the call as an error, and a
\* call that an error leaves has written no screenshot and has not made the
\* screenshots directory.
C4_TranscriptFailureIsFatal ==
    [][ last'.op = SaveConversation =>
            /\ last'.fault \in {"conv_mkdir", "conv_write"} =>
                   last'.raised /\ last'.error = "OSError"
            /\ last'.raised => ScreenshotsUntouched ]_vars

C4_Witness ==
    /\ last.op = SaveConversation
    /\ last.fault = "conv_write"
    /\ last.raised
    /\ ~no_screenshot(last.screenshot) /\ b64decode(last.screenshot).ok
    /\ screenshots_dir \notin dirs
    /\ PathJoin(TargetDirectory,
                <<"c","o","n","v","e","r","s","a","t","i","o","n","_">> \o last.agent_id \o <<"_">> \o str(last.step_number)
                \o <<".","t","x","t">>) \in DOMAIN files

\* C5: when the target directory is made and the transcript written,
\* save_conversation_with_screenshots raises nothing and returns the path
\* {target}/conversation_{agent_id}_{step}.txt, where the transcript is; the
\* second component is None when there is no screenshot or its save failed.
C5_ConversationPathReturned ==
    (last.op = SaveConversation
        /\ last.fault \notin {"conv_mkdir", "format", "conv_write"}) =>
        /\ ~last.raised
        /\ last.result = PathJoin(TargetDirectory,
                             <<"c","o","n","v","e","r","s","a","t","i","o","n","_">> \o last.agent_id \o <<"_">>
                             \o str(last.step_number) \o <<".","t","x","t">>)
        /\ last.result # <<>>
        /\ last.result \in DOMAIN files
        /\ files[last.result] # <<>>
        /\ (no_screenshot(last.screenshot) \/ last.error # "none")
               => last.screenshot_path = None

C5_Witness ==
    /\ last.op = SaveConversation
    /\ last.error = "binascii.Error"
    /\ ~last.raised
    /\ last.result \in DOMAIN files
    /\ last.screenshot_path = None

\* C6: a screenshot saved for step N and the index then rebuilt by the same
\* manager without an I/O error, in a directory that holds only files the
\* managers wrote: index.md has the line "Step N: screenshot_{agent_id}_N.png"
\* and the step number parsed from that line is N.
C6_StepRoundTrip ==
    [][ ( /\ last.op \in {SaveStep, SaveConversation}
          /\ (IF last.op = SaveStep THEN last.result ELSE last.screenshot_path) # None
          /\ last'.op = CreateIndex
          /\ last'.agent_id = last.agent_id
          /\ last'.fault = "none"
          /\ \A p \in DOMAIN files :
                 PathParent(p) = screenshots_dir => p \in DOMAIN writers )
        => /\ index_path \in DOMAIN files'
           /\ \E i \in 1..Len(LinesOf(files'[index_path])) :
                  LET line == LinesOf(files'[index_path])[i]
                  IN  /\ line = <<"S","t","e","p"," ">> \o str(last.step_number) \o <<":"," ">>
                                \o OwnName(last.agent_id, last.step_number)
                      /\ LineStep(line) = [ok |-> TRUE, value |-> last.step_number]
      ]_vars

C6_Witness ==
    /\ IndexWritten
    /\ last.agent_id = <<"A","_","1">>
    /\ \E i \in 1..Len(LinesOf(files[index_path])) :
           LinesOf(files[index_path])[i]
               = <<"S","t","e","p"," ">> \o str(MaxStep) \o <<":"," ">> \o OwnName(<<"A","_","1">>, MaxStep)

\* C7: a file with the prefix and the suffix of the manager whose step
\* segment is no integer is left out of the index, and the index is written
\* with every other selected file.
C7_MalformedNameFilteredOut ==
    LET parseable == { name \in entries(disk, screenshots_dir) :
                          Matches(name, last.agent_id) /\ int(step_segment(name)).ok }
    IN  (last.op = CreateIndex /\ last.fault = "none" /\ parseable # {}) =>
            /\ ~last.raised
            /\ index_path \in last.written
            /\ \A name \in parseable :
                   \E i \in 1..Len(StepLinesOf(files[index_path])) :
                       LineFile(StepLinesOf(files[index_path])[i]) = name

\* C8: the "Step" lines of a written index ascend by the number parsed from
\* each file name, and "Total Screenshots" is the number of "Step" lines.
C8_IndexSortedByStepNumber ==
    IndexWritten =>
        LET lines == StepLinesOf(files[index_path])
        IN  /\ \A i, j \in 1..Len(lines) :
                   i < j => /\ int(step_segment(LineFile(lines[i]))).ok
                            /\ int(step_segment(LineFile(lines[j]))).ok
                            /\ int(step_segment(LineFile(lines[i]))).value
                                   <= int(step_segment(LineFile(lines[j]))).value
            /\ TotalOf(files[index_path]) = [ok |-> TRUE, value |-> Len(lines)]

C8_Witness ==
    /\ IndexWritten
    /\ LET lines == StepLinesOf(files[index_path])
       IN  /\ Len(lines) = 2
           /\ LineStep(lines[1]).value = 2
           /\ LineStep(lines[2]).value = MaxStep

\* C9: create_screenshot_index called when the screenshots directory does
\* not exist, or holds no file screenshot_{agent_id}_*.png, raises nothing
\* and changes nothing on the disk (no directory made, no index.md written,
\* an index.md there left as it is).
C9_NothingToIndexChangesNothing ==
    [][ ( /\ last'.op = CreateIndex
          /\ \/ screenshots_dir \notin dirs
             \/ \A name \in entries(disk, screenshots_dir) :
                    ~Matches(name, last'.agent_id) )
        => /\ files' = files
           /\ dirs' = dirs
           /\ ~last'.raised ]_vars

C9_Witness ==
    /\ last.op = CreateIndex
    /\ last.fault = "none"
    /\ \A name \in entries(disk, screenshots_dir) : ~Matches(name, last.agent_id)
    /\ last.written = {}
    /\ index_path \in DOMAIN files
    /\ last.agent_id \notin writers[index_path]

\* C10: save_step_screenshot without a payload returns None and changes
\* nothing on the disk; with the payload "aGVsbG8=" and no I/O error it
\* returns {target}/screenshots/screenshot_{agent_id}_{step}.png, and the file
\* there holds the bytes of "hello" whatever it held before.
C10_SaveStepEffect ==
    [][ last'.op = SaveStep =>
            /\ no_screenshot(last'.screenshot) =>
                   /\ last'.result = None
                   /\ files' = files
                   /\ dirs' = dirs
            /\ (last'.screenshot = <<"a","G","V","s","b","G","8","=">> /\ last'.fault = "none") =>
                   /\ last'.result
                          = PathJoin(PathJoin(TargetDirectory, <<"s","c","r","e","e","n","s","h","o","t","s">>),
                                     OwnName(last'.agent_id, last'.step_number))
                   /\ last'.result \in DOMAIN files'
                   /\ files'[last'.result] = <<104, 101, 108, 108, 111>>
                   /\ \A p \in DOMAIN files : p \in DOMAIN files'
                   /\ \A p \in DOMAIN files' \ {last'.result} :
                          p \in DOMAIN files /\ files'[p] = files[p] ]_vars

C10_Witness ==
    /\ last.op = SaveStep
    /\ last.screenshot = <<"a","G","V","s","b","G","8","=">>
    /\ last.fault = "none"
    /\ last.result \in DOMAIN files
    /\ files[last.result] = <<104, 101, 108, 108, 111>>
    /\ last.written = {last.result}

=============================================================================
